---- MODULE Spec2Model ----
(***************************************************************************)
(* A model of pysnap's Snapchat client (src/pysnap/__init__.py): the       *)
(* byte-signature detector, the session fields and the operations that     *)
(* read or write them, the media download / upload / story operations and  *)
(* the event composer.  Every operation is one action; what the caller and *)
(* the service supply (arguments, the clock, the HTTP response, the file   *)
(* system) is drawn from small sets.                                       *)
(***************************************************************************)
EXTENDS Integers, Sequences, FiniteSets, TLC

VARIABLES
    py3,            \* TRUE: the interpreter is Python 3; FALSE: Python 2
    username,       \* Snapchat.username
    auth_token,     \* Snapchat.auth_token
    qr_path,        \* Snapchat.qr_path
    pc,             \* "idle": the caller may call; "done": a call has ended
    call,           \* what the call that ended last did (see Call)
    lastCred,       \* history: auth_token of the latest response carrying one
    explicitUnset   \* history: the caller has invoked _unset_auth itself

vars == <<py3, username, auth_token, qr_path, pc, call, lastCred, explicitUnset>>
session == <<username, auth_token, qr_path>>

----------------------------------------------------------------------------
(* Bounds of the model *)

\* longest byte string the caller or the service supplies
MaxLen == 3
\* clock readings are fixed-point: TimeScale ticks make one second
TimeScale == 4
\* first clock reading, in ticks
TickBase == 4000
\* number of later clock readings
NumTicks == 2

----------------------------------------------------------------------------
(* Module constants *)

MEDIA_IMAGE == 0
MEDIA_VIDEO == 1
MEDIA_VIDEO_NOAUDIO == 2

\* Python's None (also JSON null once parsed)
None == "None"

----------------------------------------------------------------------------
(* Python values the detector compares *)

\* the byte values the signatures mention: 0x00, 'K', 'P', 0xD8, 0xFF
ByteVals == {0, 75, 80, 216, 255}
ByteSeqs == UNION {[1..n -> ByteVals] : n \in 0..MaxLen}

\* A byte buffer (file content read 'rb', r.content, decrypt output, a b'..'
\* literal): type str on Python 2, type bytes on Python 3.
PyBytes(s) == [type |-> IF py3 THEN "bytes" ELSE "str", val |-> s]
\* A '..' literal: type str on both interpreters (text on Python 3).
PyStr(s) == [type |-> "str", val |-> s]

\* len(data)
len(data) == Len(data.val)
\* data[i:j], Python's clamped slice
Slice(data, i, j) ==
    [type |-> data.type,
     val  |-> SubSeq(data.val, i + 1, IF j < Len(data.val) THEN j ELSE Len(data.val))]
\* a == b on string values: Python 3 never equates bytes with str
PyEq(a, b) == a.type = b.type /\ a.val = b.val

----------------------------------------------------------------------------
(* Content type detector *)

\* a bug is_video could have: a two-byte buffer is too short
is_video_short(data) == len(data) > 2 /\ PyEq(Slice(data, 0, 2), PyBytes(<<0, 0>>))
is_video(data) == len(data) > 1 /\ PyEq(Slice(data, 0, 2), PyBytes(<<0, 0>>))

is_image(data) == len(data) > 1 /\ PyEq(Slice(data, 0, 2), PyBytes(<<255, 216>>))

is_zip(data) == len(data) > 1 /\ PyEq(Slice(data, 0, 2), PyStr(<<80, 75>>))

get_file_extension(media_type) ==
    IF media_type \in {MEDIA_VIDEO, MEDIA_VIDEO_NOAUDIO} THEN "mp4"
    ELSE IF media_type = MEDIA_IMAGE THEN "jpg"
    ELSE ""

\* the result is an integer or None: wrapped so the two compare
MediaType(n) == [none |-> FALSE, n |-> n]
NoMediaType == [none |-> TRUE, n |-> 0]

get_media_type(data) ==
    IF is_video(data) THEN MediaType(MEDIA_VIDEO)
    ELSE IF is_image(data) THEN MediaType(MEDIA_IMAGE)
    ELSE NoMediaType

----------------------------------------------------------------------------
(* The clock: time() *)

\* the readings time() can give, in ticks
Times == TickBase..(TickBase + NumTicks)

\* int(round(now)): Python 2 rounds a tie away from zero, Python 3 to even
PyRound(t) ==
    LET q == t \div TimeScale
        r == t % TimeScale
    IN  IF 2 * r < TimeScale THEN q
        ELSE IF 2 * r > TimeScale THEN q + 1
        ELSE IF py3 THEN (IF q % 2 = 0 THEN q ELSE q + 1)
        ELSE q + 1

\* time() * 1000, kept at the clock's fixed-point scale
Millis(t) == t * 1000

----------------------------------------------------------------------------
(* The transport: pysnap.utils.request, and the responses of the service *)

HttpStatuses == {200, 404}

\* requests' raise_for_status(): an error for a non-2xx status
RequestRaises(r, raise_for_status) == raise_for_status /\ r.status \notin 200..299

\* values of the fields of updates_response
UpdKeys == {"auth_token", "qr_path", "username"}
UpdVals ==
    [auth_token |-> {None, "tokA", "tokB"}, qr_path |-> {"qrA"}, username |-> {"bob"}]
\* a dict is a function on its keys: k in d is k \in DOMAIN d
UpdDicts ==
    UNION {{d \in [K -> {None, "tokA", "tokB", "qrA", "bob"}] :
                \A k \in K : d[k] \in UpdVals[k]} : K \in SUBSET UpdKeys}
StoriesDicts ==
    {<<>>,
     [friend_stories |-> <<>>],
     [friend_stories |->
        <<[username |-> "amy", stories |-> <<[story |-> [id |-> "st1"]]>>]>>]}
ResultDicts ==
    {<<>>}
    \cup {[updates_response |-> u] : u \in UpdDicts}
    \cup {[updates_response |-> u, stories_response |-> s] :
              u \in UpdDicts, s \in StoriesDicts}

\* a response: status, raw body, and the body parsed as JSON when it parses
Response(status, content, isjson, json) ==
    [status |-> status, content |-> content, isjson |-> isjson, json |-> json]
NoResponse == Response(0, <<>>, FALSE, <<>>)
\* responses of the endpoints that answer JSON
JsonResponses ==
    {Response(200, <<>>, TRUE, j) : j \in ResultDicts}
    \cup {Response(s, <<>>, FALSE, <<>>) : s \in HttpStatuses}
\* responses of the endpoints whose body is empty on success
BodyResponses == {Response(s, c, FALSE, <<>>) : s \in HttpStatuses, c \in {<<>>, <<0>>}}
\* responses of the endpoints that answer a media blob
BlobResponses == {Response(s, c, FALSE, <<>>) : s \in HttpStatuses, c \in ByteSeqs}

NoFiles == [none |-> TRUE]

\* Snapchat._request: the request handed to pysnap.utils.request
\* (self_auth_token: self.auth_token when the request is made)
_request(self_auth_token, endpoint, data, files, raise_for_status, req_type) ==
    [endpoint |-> endpoint, auth_token |-> self_auth_token, data |-> data,
     files |-> files, raise_for_status |-> raise_for_status, req_type |-> req_type]
\* the defaults of _request's parameters
DefaultRaiseForStatus == TRUE
DefaultReqType == "post"

----------------------------------------------------------------------------
(* What a call did *)

RetNone == [kind |-> "None"]
RetBool(b) == [kind |-> "bool", val |-> b]
RetBytes(d) == [kind |-> "bytes", val |-> d]
RetJson(j) == [kind |-> "json", val |-> j]
RetList(l) == [kind |-> "list", val |-> l]
RetStr(s) == [kind |-> "str", val |-> s]
RetInt(n) == [kind |-> "int", val |-> n]
RetRaised == [kind |-> "raised"]

\* op: the operation; args: its arguments; now: the reading of time() (0: not
\* read); made: the media ids generated; netlog: the requests issued; resp: the
\* response received; ret: the value returned; err: the exception raised ("":
\* none)
Call(op, args, now, made, netlog, resp, ret, err) ==
    [op |-> op, args |-> args, now |-> now, made |-> made, netlog |-> netlog,
     resp |-> resp, ret |-> IF err = "" THEN ret ELSE RetRaised, err |-> err]
NoCall == Call("", <<>>, 0, <<>>, <<>>, NoResponse, RetNone, "")

\* the call ends: its record is left for the caller
Ends(c) == pc' = "done" /\ call' = c

Absent == "absent"

Init ==
    /\ py3 \in BOOLEAN
    /\ username = None
    /\ auth_token = None
    /\ qr_path = None
    /\ pc = "idle"
    /\ call = NoCall
    /\ lastCred = Absent
    /\ explicitUnset = FALSE

\* the caller takes the result and is free to call again
Return ==
    /\ pc = "done"
    /\ pc' = "idle"
    /\ call' = NoCall
    /\ UNCHANGED <<py3, username, auth_token, qr_path, lastCred, explicitUnset>>

----------------------------------------------------------------------------
(* Session lifecycle *)

\* username.lower()
Lower(u) == IF u = "Bob" THEN "bob" ELSE u

\* r.json() and result['updates_response'] both succeed
HasUpdates(r) == r.isjson /\ "updates_response" \in DOMAIN r.json
\* the response was received and its updates_response has an auth_token field
CarriesToken(r, raise_for_status) ==
    /\ ~RequestRaises(r, raise_for_status)
    /\ HasUpdates(r)
    /\ "auth_token" \in DOMAIN r.json["updates_response"]

\* a bug the write-back could have: the fresh credential is dropped
TokenFromStale(upd, old) == old
\* if 'auth_token' in result['updates_response']: self.auth_token = ...
TokenFrom(upd, old) == IF "auth_token" \in DOMAIN upd THEN upd["auth_token"] ELSE old
\* if 'qr_path' in result['updates_response']: self.qr_path = ...
QrFrom(upd, old) == IF "qr_path" \in DOMAIN upd THEN upd["qr_path"] ELSE old
\* a bug the write-back could have: the username is never stored
UsernameFromKept(upd, u, old) == old
\* if 'username' in result['updates_response']: self.username = username.lower()
UsernameFrom(upd, u, old) == IF "username" \in DOMAIN upd THEN Lower(u) ELSE old

\* the exception, if any, of: request; r.json(); result['updates_response']
ParseError(r, raise_for_status) ==
    IF RequestRaises(r, raise_for_status) THEN "HTTPError"
    ELSE IF ~r.isjson THEN "ValueError"
    ELSE IF "updates_response" \notin DOMAIN r.json THEN "KeyError"
    ELSE ""

\* history: the credential of the latest response that carried one
NoteCred(r, raise_for_status) ==
    lastCred' = IF CarriesToken(r, raise_for_status)
                THEN r.json["updates_response"]["auth_token"]
                ELSE lastCred

_unset_auth ==
    /\ pc = "idle"
    /\ username' = None
    /\ auth_token' = None
    /\ explicitUnset' = TRUE
    /\ Ends(Call("_unset_auth", <<>>, 0, <<>>, <<>>, NoResponse, RetNone, ""))
    /\ UNCHANGED <<py3, qr_path, lastCred>>

login(u, password, t, r) ==
    /\ pc = "idle"
    /\ LET \* self._unset_auth() has run: the request carries no token
           req == _request(None, "loq/login",
                           [username |-> Lower(u), password |-> password,
                            timestamp |-> Millis(t),
                            features_map |-> "[all_updates_friends_response]=1"],
                           NoFiles, DefaultRaiseForStatus, DefaultReqType)
           err == ParseError(r, DefaultRaiseForStatus)
           upd == r.json["updates_response"]
       IN  /\ auth_token' = IF err = "" THEN TokenFrom(upd, None) ELSE None
           /\ qr_path' = IF err = "" THEN QrFrom(upd, qr_path) ELSE qr_path
           /\ username' = IF err = "" THEN UsernameFrom(upd, u, None) ELSE None
           /\ Ends(Call("login", [username |-> u, password |-> password], t, <<>>,
                        <<req>>, r, RetJson(r.json), err))
    /\ NoteCred(r, DefaultRaiseForStatus)
    /\ UNCHANGED <<py3, explicitUnset>>

auth_token_login(u, tok, t, r) ==
    /\ pc = "idle"
    /\ LET \* self.auth_token = auth_token comes first
           req == _request(tok, "loq/all_updates",
                           [username |-> u, timestamp |-> Millis(t)],
                           NoFiles, DefaultRaiseForStatus, DefaultReqType)
           perr == ParseError(r, DefaultRaiseForStatus)
           upd == r.json["updates_response"]
           \* result['updates_response']['qr_path'] is read without a test
           err == IF perr # "" THEN perr
                  ELSE IF "auth_token" \in DOMAIN upd /\ "qr_path" \notin DOMAIN upd
                       THEN "KeyError"
                  ELSE ""
       IN  /\ auth_token' = IF perr = "" THEN TokenFrom(upd, tok) ELSE tok
           /\ qr_path' = IF err = "" /\ "auth_token" \in DOMAIN upd
                         THEN upd["qr_path"] ELSE qr_path
           /\ username' = IF err = "" THEN UsernameFrom(upd, u, username) ELSE username
           /\ Ends(Call("auth_token_login", [username |-> u, auth_token |-> tok], t,
                        <<>>, <<req>>, r, RetJson(r.json), err))
    /\ NoteCred(r, DefaultRaiseForStatus)
    /\ UNCHANGED <<py3, explicitUnset>>

logout(r) ==
    /\ pc = "idle"
    /\ LET req == _request(auth_token, "ph/logout", [username |-> username],
                           NoFiles, DefaultRaiseForStatus, DefaultReqType)
           err == IF RequestRaises(r, DefaultRaiseForStatus) THEN "HTTPError" ELSE ""
       IN  Ends(Call("logout", <<>>, 0, <<>>, <<req>>, r,
                     RetBool(Len(r.content) = 0), err))
    /\ UNCHANGED <<py3, username, auth_token, qr_path, lastCred, explicitUnset>>

get_updates(t, r) ==
    /\ pc = "idle"
    /\ LET req == _request(auth_token, "/loq/all_updates",
                           [username |-> username, timestamp |-> Millis(t)],
                           NoFiles, DefaultRaiseForStatus, DefaultReqType)
           perr == ParseError(r, DefaultRaiseForStatus)
           upd == r.json["updates_response"]
           err == IF perr # "" THEN perr
                  ELSE IF "auth_token" \in DOMAIN upd /\ "qr_path" \notin DOMAIN upd
                       THEN "KeyError"
                  ELSE ""
       IN  /\ auth_token' = IF perr = "" THEN TokenFrom(upd, auth_token) ELSE auth_token
           /\ qr_path' = IF err = "" /\ "auth_token" \in DOMAIN upd
                         THEN upd["qr_path"] ELSE qr_path
           /\ Ends(Call("get_updates", <<>>, t, <<>>, <<req>>, r, RetJson(r.json), err))
    /\ NoteCred(r, DefaultRaiseForStatus)
    /\ UNCHANGED <<py3, username, explicitUnset>>

\* the stories of every group, each stamped with its group's username
RECURSIVE StoriesOf(_, _)
StoriesOf(sender, stories) ==
    IF stories = <<>> THEN <<>>
    ELSE <<[story |-> Head(stories).story, sender |-> sender]>>
         \o StoriesOf(sender, Tail(stories))
RECURSIVE FlattenStories(_)
FlattenStories(groups) ==
    IF groups = <<>> THEN <<>>
    ELSE StoriesOf(Head(groups).username, Head(groups).stories)
         \o FlattenStories(Tail(groups))

get_friend_stories(t, r) ==
    /\ pc = "idle"
    /\ LET req == _request(auth_token, "loq/all_updates",
                           [username |-> username, timestamp |-> Millis(t)],
                           NoFiles, DefaultRaiseForStatus, DefaultReqType)
           perr == ParseError(r, DefaultRaiseForStatus)
           upd == r.json["updates_response"]
           \* result['stories_response']['friend_stories']
           err == IF perr # "" THEN perr
                  ELSE IF "stories_response" \notin DOMAIN r.json THEN "KeyError"
                  ELSE IF "friend_stories" \notin DOMAIN r.json["stories_response"]
                       THEN "KeyError"
                  ELSE ""
       IN  /\ auth_token' = IF perr = "" THEN TokenFrom(upd, auth_token) ELSE auth_token
           /\ Ends(Call("get_friend_stories", <<>>, t, <<>>, <<req>>, r,
                        IF err = ""
                        THEN RetList(FlattenStories(
                                 r.json["stories_response"]["friend_stories"]))
                        ELSE RetNone,
                        err))
    /\ NoteCred(r, DefaultRaiseForStatus)
    /\ UNCHANGED <<py3, username, qr_path, explicitUnset>>

\* a call starts only when the caller holds no unfinished call
Idle == pc = "idle"

UsernameArgs == {"Bob"}
PasswordArgs == {"pw"}
TokenArgs == {"tokC"}

NextSession ==
    \/ _unset_auth
    \/ Idle /\ \E u \in UsernameArgs, p \in PasswordArgs, t \in Times, r \in JsonResponses :
           login(u, p, t, r)
    \/ Idle /\ \E u \in UsernameArgs, k \in TokenArgs, t \in Times, r \in JsonResponses :
           auth_token_login(u, k, t, r)
    \/ Idle /\ \E r \in BodyResponses : logout(r)
    \/ Idle /\ \E t \in Times, r \in JsonResponses : get_updates(t, r)
    \/ Idle /\ \E t \in Times, r \in JsonResponses : get_friend_stories(t, r)
    \/ Return

SpecSession == Init /\ [][NextSession]_vars

----------------------------------------------------------------------------
(* Media codec and media ids: pysnap.utils *)

ByteOrder == <<0, 75, 80, 216, 255>>
IndexOf(b) == CHOOSE i \in 1..Len(ByteOrder) : ByteOrder[i] = b
\* a substitution of byte values: the cipher keeps distinct plaintexts distinct
Rot(b, k) == ByteOrder[((IndexOf(b) - 1 + k) % Len(ByteOrder)) + 1]
RotAll(s, k) == [i \in 1..Len(s) |-> Rot(s[i], k)]

encrypt(data) == PyBytes(RotAll(data.val, 1))
\* decrypt(encrypt(P)) = P
decrypt(data) == PyBytes(RotAll(data.val, Len(ByteOrder) - 1))
\* the keyed variant: key and iv select the substitution
decrypt_story(data, key, iv) ==
    PyBytes(RotAll(data.val, (key.val[1] + iv.val[1] + 1) % Len(ByteOrder)))

\* key.decode('base64'): the str method exists on Python 2 only
HasBase64Codec == ~py3
B64Decode(s) == PyBytes(IF s = "AA==" THEN <<0>> ELSE <<1>>)
KeyArgs == {"AA==", "AQ=="}
IvArgs == {"AQ=="}

\* make_media_id(username): made from the username and the clock
make_media_id(u, t) == [username |-> u, at |-> t]

----------------------------------------------------------------------------
(* Media transfer pipeline: download *)

\* a bug the downloads could have: the decrypted bytes are returned unchecked
ValidatedAlways(data) == RetBytes(data.val)

\* if any((is_image(data), is_video(data), is_zip(data))): return data
\* return None
Validated(data) ==
    IF is_image(data) \/ is_video(data) \/ is_zip(data)
    THEN RetBytes(data.val)
    ELSE RetNone

get_story_blob(story_id, story_key, story_iv, r) ==
    /\ pc = "idle"
    /\ LET req == _request(auth_token, "bq/story_blob", [story_id |-> story_id],
                           NoFiles, FALSE, "get")
           err == IF RequestRaises(r, FALSE) THEN "HTTPError"
                  ELSE IF ~HasBase64Codec THEN "AttributeError"
                  ELSE ""
           data == decrypt_story(PyBytes(r.content), B64Decode(story_key),
                                 B64Decode(story_iv))
       IN  Ends(Call("get_story_blob",
                     [story_id |-> story_id, key |-> story_key, iv |-> story_iv],
                     0, <<>>, <<req>>, r, Validated(data), err))
    /\ UNCHANGED <<py3, username, auth_token, qr_path, lastCred, explicitUnset>>

get_chat_media(id, chatid, key, iv, t, r) ==
    /\ pc = "idle"
    /\ LET req == _request(auth_token, "bq/chat_media",
                           [id |-> id, username |-> username,
                            timestamp |-> Millis(t), conversation_id |-> chatid],
                           NoFiles, DefaultRaiseForStatus, DefaultReqType)
           err == IF RequestRaises(r, DefaultRaiseForStatus) THEN "HTTPError"
                  ELSE IF ~HasBase64Codec THEN "AttributeError"
                  ELSE ""
           data == decrypt_story(PyBytes(r.content), B64Decode(key), B64Decode(iv))
       IN  Ends(Call("get_chat_media",
                     [id |-> id, chatid |-> chatid, key |-> key, iv |-> iv],
                     t, <<>>, <<req>>, r, Validated(data), err))
    /\ UNCHANGED <<py3, username, auth_token, qr_path, lastCred, explicitUnset>>

get_blob(snap_id, r) ==
    /\ pc = "idle"
    /\ LET req == _request(auth_token, "ph/blob",
                           [username |-> username, id |-> snap_id],
                           NoFiles, FALSE, DefaultReqType)
           err == IF RequestRaises(r, FALSE) THEN "HTTPError" ELSE ""
           data == decrypt(PyBytes(r.content))
       IN  Ends(Call("get_blob", [snap_id |-> snap_id], 0, <<>>, <<req>>, r,
                     Validated(data), err))
    /\ UNCHANGED <<py3, username, auth_token, qr_path, lastCred, explicitUnset>>

----------------------------------------------------------------------------
(* Event batch composer *)

\* json.dumps(v): the serialised value, which names v and nothing else
JsonDumps(v) == [dumps |-> v]

\* the request send_events(events, data) makes
send_events_request(events, data) ==
    _request(auth_token, "bq/update_snaps",
             [username |-> username, events |-> JsonDumps(events),
              json |-> JsonDumps(data)],
             NoFiles, DefaultRaiseForStatus, DefaultReqType)

\* a bug mark_viewed could have: SNAP_EXPIRED stamped like SNAP_VIEW
view_events_same_ts(snap_id, now, view_duration) ==
    <<[eventName |-> "SNAP_VIEW", params |-> [id |-> snap_id],
       ts |-> PyRound(now) - view_duration],
      [eventName |-> "SNAP_EXPIRED", params |-> [id |-> snap_id],
       ts |-> PyRound(now) - view_duration]>>

\* the events list mark_viewed builds
view_events(snap_id, now, view_duration) ==
    <<[eventName |-> "SNAP_VIEW", params |-> [id |-> snap_id],
       ts |-> PyRound(now) - view_duration],
      [eventName |-> "SNAP_EXPIRED", params |-> [id |-> snap_id],
       ts |-> PyRound(now)]>>

mark_viewed(snap_id, view_duration, t, r) ==
    /\ pc = "idle"
    /\ LET now == t
           data == [s \in {snap_id} |-> [t |-> now, sv |-> view_duration]]
           events == view_events(snap_id, now, view_duration)
           req == send_events_request(events, data)
           err == IF RequestRaises(r, DefaultRaiseForStatus) THEN "HTTPError" ELSE ""
       IN  Ends(Call("mark_viewed",
                     [snap_id |-> snap_id, view_duration |-> view_duration],
                     now, <<>>, <<req>>, r, RetBool(Len(r.content) = 0), err))
    /\ UNCHANGED <<py3, username, auth_token, qr_path, lastCred, explicitUnset>>

mark_screenshot(snap_id, view_duration, t, r) ==
    /\ pc = "idle"
    /\ LET now == t
           data == [s \in {snap_id} |-> [t |-> now, sv |-> view_duration, c |-> 3]]
           events == <<[eventName |-> "SNAP_SCREENSHOT", params |-> [id |-> snap_id],
                        ts |-> PyRound(now) - view_duration]>>
           req == send_events_request(events, data)
           err == IF RequestRaises(r, DefaultRaiseForStatus) THEN "HTTPError" ELSE ""
       IN  Ends(Call("mark_screenshot",
                     [snap_id |-> snap_id, view_duration |-> view_duration],
                     now, <<>>, <<req>>, r, RetBool(Len(r.content) = 0), err))
    /\ UNCHANGED <<py3, username, auth_token, qr_path, lastCred, explicitUnset>>

----------------------------------------------------------------------------
(* Media transfer pipeline: upload and story posts *)

\* what the file system holds at the path given to upload
FsEntry(kind, content) == [kind |-> kind, content |-> content]
FsEntries ==
    {FsEntry("missing", <<>>), FsEntry("dir", <<>>)}
    \cup {FsEntry("file", c) : c \in ByteSeqs}

\* a bug upload could have: the media type is not checked
UploadRefusalUntyped(entry) ==
    IF entry.kind = "missing" THEN "ValueError: No such file"
    ELSE IF entry.kind = "dir" THEN "IOError"
    ELSE ""

\* the exception upload raises before it generates a media id ("": none):
\* os.path.exists fails; open() of a directory fails; get_media_type is None
UploadRefusal(entry) ==
    IF entry.kind = "missing" THEN "ValueError: No such file"
    ELSE IF entry.kind = "dir" THEN "IOError"
    ELSE IF get_media_type(PyBytes(entry.content)).none
         THEN "ValueError: Could not determine media type"
    ELSE ""

upload(path, entry, t, r) ==
    /\ pc = "idle"
    /\ LET data == PyBytes(entry.content)
           refusal == UploadRefusal(entry)
           media_id == make_media_id(username, t)
           req == _request(auth_token, "ph/upload",
                           [username |-> username, media_id |-> media_id,
                            type |-> get_media_type(data).n],
                           [data |-> encrypt(data)],
                           DefaultRaiseForStatus, DefaultReqType)
           err == IF RequestRaises(r, DefaultRaiseForStatus) THEN "HTTPError" ELSE ""
       IN  IF refusal # ""
           THEN Ends(Call("upload", [path |-> path, entry |-> entry], 0, <<>>, <<>>,
                          NoResponse, RetNone, refusal))
           ELSE Ends(Call("upload", [path |-> path, entry |-> entry], t,
                          <<media_id>>, <<req>>, r,
                          IF Len(r.content) = 0 THEN RetStr(media_id) ELSE RetNone,
                          err))
    /\ UNCHANGED <<py3, username, auth_token, qr_path, lastCred, explicitUnset>>

\* What the name time denotes inside a function: the imported time() unless the
\* function has a parameter of that name, which hides it.
TimeBinding(params) == IF "time" \in params THEN "parameter" ELSE "function"
\* time(): calling an integer raises TypeError
TimeCallError(params) == IF TimeBinding(params) = "function" THEN "" ELSE "TypeError"

send_to_story(media_id, time, t, r) ==
    /\ pc = "idle"
    /\ LET terr == TimeCallError({"self", "media_id", "time"})
           req == _request(auth_token, "bq/post_story",
                           [username |-> username, timestamp |-> Millis(t),
                            media_id |-> media_id, client_id |-> media_id,
                            caption_text_display |-> "", zipped |-> "0",
                            type |-> 0, time |-> time],
                           NoFiles, DefaultRaiseForStatus, DefaultReqType)
           err == IF RequestRaises(r, DefaultRaiseForStatus) THEN "HTTPError" ELSE ""
       IN  IF terr # ""
           THEN Ends(Call("send_to_story", [media_id |-> media_id, time |-> time],
                          0, <<>>, <<>>, NoResponse, RetNone, terr))
           ELSE Ends(Call("send_to_story", [media_id |-> media_id, time |-> time],
                          t, <<>>, <<req>>, r, RetBytes(r.content), err))
    /\ UNCHANGED <<py3, username, auth_token, qr_path, lastCred, explicitUnset>>

retry_post_story(data, caption, time, t, r) ==
    /\ pc = "idle"
    /\ LET media_id == make_media_id(username, t)
           terr == TimeCallError({"self", "data", "caption", "time"})
           req == _request(auth_token, "bq/retry_post_story",
                           [username |-> username, timestamp |-> Millis(t),
                            media_id |-> media_id, client_id |-> media_id,
                            caption_text_display |-> caption,
                            zipped |-> IF is_zip(data) THEN 1 ELSE 0,
                            type |-> get_media_type(data),
                            time |-> time * 1000],
                           [data |-> encrypt(data)],
                           DefaultRaiseForStatus, DefaultReqType)
           err == IF RequestRaises(r, DefaultRaiseForStatus) THEN "HTTPError" ELSE ""
       IN  IF terr # ""
           THEN Ends(Call("retry_post_story",
                          [data |-> data, caption |-> caption, time |-> time],
                          t, <<media_id>>, <<>>, NoResponse, RetNone, terr))
           ELSE Ends(Call("retry_post_story",
                          [data |-> data, caption |-> caption, time |-> time],
                          t, <<media_id>>, <<req>>, r, RetBytes(r.content), err))
    /\ UNCHANGED <<py3, username, auth_token, qr_path, lastCred, explicitUnset>>

----------------------------------------------------------------------------
(* The detector's functions, called by the user of the module *)

call_is_video(data) ==
    /\ pc = "idle"
    /\ Ends(Call("is_video", [data |-> data], 0, <<>>, <<>>, NoResponse,
                 RetBool(is_video(data)), ""))
    /\ UNCHANGED <<py3, username, auth_token, qr_path, lastCred, explicitUnset>>

call_is_image(data) ==
    /\ pc = "idle"
    /\ Ends(Call("is_image", [data |-> data], 0, <<>>, <<>>, NoResponse,
                 RetBool(is_image(data)), ""))
    /\ UNCHANGED <<py3, username, auth_token, qr_path, lastCred, explicitUnset>>

call_is_zip(data) ==
    /\ pc = "idle"
    /\ Ends(Call("is_zip", [data |-> data], 0, <<>>, <<>>, NoResponse,
                 RetBool(is_zip(data)), ""))
    /\ UNCHANGED <<py3, username, auth_token, qr_path, lastCred, explicitUnset>>

call_get_media_type(data) ==
    /\ pc = "idle"
    /\ Ends(Call("get_media_type", [data |-> data], 0, <<>>, <<>>, NoResponse,
                 IF get_media_type(data).none THEN RetNone
                 ELSE RetInt(get_media_type(data).n), ""))
    /\ UNCHANGED <<py3, username, auth_token, qr_path, lastCred, explicitUnset>>

call_get_file_extension(media_type) ==
    /\ pc = "idle"
    /\ Ends(Call("get_file_extension", [media_type |-> media_type], 0, <<>>, <<>>,
                 NoResponse, RetStr(get_file_extension(media_type)), ""))
    /\ UNCHANGED <<py3, username, auth_token, qr_path, lastCred, explicitUnset>>

----------------------------------------------------------------------------
(* Specifications *)

\* longest view duration the caller reports, in seconds
MaxDuration == 3
Durations == 1..MaxDuration
SnapIds == {"s1", "s2"}
PathArgs == {"/tmp/snap.jpg"}
CaptionArgs == {"", "hi"}
MediaIdArgs == {make_media_id("bob", TickBase)}
\* media types and one value that is none of them
MediaTypeArgs == {MEDIA_IMAGE, MEDIA_VIDEO, MEDIA_VIDEO_NOAUDIO, MEDIA_VIDEO_NOAUDIO + 1}
\* a login the service accepts
LoginOk ==
    Response(200, <<>>, TRUE,
             [updates_response |->
                 [auth_token |-> "tokA", qr_path |-> "qrA", username |-> "bob"]])

NextDetector ==
    \/ Idle /\ \E d \in ByteSeqs : call_is_video(PyBytes(d))
    \/ Idle /\ \E d \in ByteSeqs : call_is_image(PyBytes(d))
    \/ Idle /\ \E d \in ByteSeqs : call_is_zip(PyBytes(d))
    \/ Idle /\ \E d \in ByteSeqs : call_get_media_type(PyBytes(d))
    \/ Idle /\ \E m \in MediaTypeArgs : call_get_file_extension(m)
    \/ Return

NextMedia ==
    \/ Idle /\ \E u \in UsernameArgs, p \in PasswordArgs, t \in Times : login(u, p, t, LoginOk)
    \/ Idle /\ \E i \in SnapIds, k \in KeyArgs, v \in IvArgs, r \in BlobResponses :
           get_story_blob(i, k, v, r)
    \/ Idle /\ \E i \in SnapIds, k \in KeyArgs, v \in IvArgs, t \in Times, r \in BlobResponses :
           get_chat_media(i, "c1", k, v, t, r)
    \/ Idle /\ \E i \in SnapIds, r \in BlobResponses : get_blob(i, r)
    \/ Idle /\ \E p \in PathArgs, e \in FsEntries, t \in Times, r \in BodyResponses :
           upload(p, e, t, r)
    \/ Idle /\ \E m \in MediaIdArgs, d \in Durations, t \in Times, r \in BodyResponses :
           send_to_story(m, d, t, r)
    \/ Idle /\ \E b \in ByteSeqs, c \in CaptionArgs, d \in Durations, t \in Times,
          r \in BodyResponses :
           retry_post_story(PyBytes(b), c, d, t, r)
    \/ Idle /\ \E i \in SnapIds, d \in Durations, t \in Times, r \in BodyResponses :
           mark_viewed(i, d, t, r)
    \/ Idle /\ \E i \in SnapIds, d \in Durations, t \in Times, r \in BodyResponses :
           mark_screenshot(i, d, t, r)
    \/ Return

Next == NextSession \/ NextMedia \/ NextDetector

Spec == Init /\ [][Next]_vars
SpecDetector == Init /\ [][NextDetector]_vars
SpecMedia == Init /\ [][NextMedia]_vars

----------------------------------------------------------------------------
(* Properties *)

\* B starts with the bytes sig
HasPrefix(B, sig) == Len(B) >= Len(sig) /\ SubSeq(B, 1, Len(sig)) = sig
SigVideo == <<0, 0>>
SigImage == <<255, 216>>
SigZip == <<80, 75>>
AnySignature(B) == HasPrefix(B, SigImage) \/ HasPrefix(B, SigVideo) \/ HasPrefix(B, SigZip)

DownloadOps == {"get_blob", "get_story_blob", "get_chat_media"}
\* the bytes a download decrypted
Decrypted(c) ==
    IF c.op = "get_blob" THEN decrypt(PyBytes(c.resp.content)).val
    ELSE decrypt_story(PyBytes(c.resp.content), B64Decode(c.args.key),
                       B64Decode(c.args.iv)).val

\* C1: a download that got as far as decrypting bytes D returns D or null and
\* raises nothing; it returns D only if D carries the image, video or zip
\* signature, and returns null when D carries none of them.
C1_DownloadValidated ==
    (pc = "done" /\ call.op \in DownloadOps
        /\ call.err \notin {"HTTPError", "AttributeError"})
    => LET D == Decrypted(call)
       IN  /\ call.err = ""
           /\ call.ret \in {RetBytes(D), RetNone}
           /\ call.ret = RetBytes(D) => AnySignature(D)
           /\ ~AnySignature(D) => call.ret = RetNone
C1_Witness ==
    /\ pc = "done" /\ call.op = "get_chat_media" /\ call.err = ""
    /\ call.ret = RetNone /\ Decrypted(call) = <<75, 80, 0>>

\* C2: is_zip(B) is true iff B has at least two bytes and starts with the
\* bytes of 'P', 'K'.
C2_IsZipByteSignature ==
    (pc = "done" /\ call.op = "is_zip")
    => call.ret = RetBool(HasPrefix(call.args.data.val, SigZip))

\* C3: get_media_type(B) is VIDEO iff B starts with 00 00, IMAGE iff B starts
\* with FF D8, and unknown (None) otherwise, whatever else the state holds.
C3_MediaTypeBySignature ==
    (pc = "done" /\ call.op = "get_media_type")
    => LET B == call.args.data.val
       IN  /\ call.ret = RetInt(MEDIA_VIDEO) <=> HasPrefix(B, SigVideo)
           /\ call.ret = RetInt(MEDIA_IMAGE) <=> HasPrefix(B, SigImage)
           /\ call.ret = RetNone <=> ~(HasPrefix(B, SigVideo) \/ HasPrefix(B, SigImage))
C3_Witness ==
    /\ pc = "done" /\ call.op = "get_media_type"
    /\ call.args.data.val = <<0, 0>> /\ call.ret = RetInt(MEDIA_VIDEO)

\* C4: upload issues a request only for an existing file that classifies as
\* video or image; a missing path fails with the no-such-file error and an
\* unclassified content with the media-type error, and in both cases no
\* request is made, no media id is generated and the session is unchanged.
C4_UploadRefusals ==
    [][(pc = "idle" /\ pc' = "done" /\ call'.op = "upload")
       => LET e == call'.args.entry
              known == /\ e.kind = "file"
                       /\ HasPrefix(e.content, SigVideo) \/ HasPrefix(e.content, SigImage)
              unknown == e.kind = "file" /\ ~known
          IN  /\ call'.netlog # <<>> => known
              /\ e.kind = "missing" => call'.err = "ValueError: No such file"
              /\ unknown => call'.err = "ValueError: Could not determine media type"
              /\ (e.kind = "missing" \/ unknown)
                 => /\ call'.netlog = <<>>
                    /\ call'.made = <<>>
                    /\ session' = session]_vars
C4_Witness ==
    /\ pc = "done" /\ call.op = "upload" /\ username = "bob"
    /\ call.args.entry = FsEntry("file", SigZip)
    /\ call.err = "ValueError: Could not determine media type"
    /\ call.netlog = <<>>

\* C5: mark_viewed(snapId, duration) at time T hands send_events SNAP_VIEW at
\* round(T) - duration and then SNAP_EXPIRED at round(T), round(T) being an
\* integer nearest to T, both with params {id: snapId}; the state payload is
\* {snapId: {t: T, sv: duration}}.
C5_MarkViewedEvents ==
    (pc = "done" /\ call.op = "mark_viewed")
    => LET ev == call.netlog[1].data.events.dumps
           payload == call.netlog[1].data.json.dumps
           id == call.args.snap_id
           d == call.args.view_duration
           T == call.now
       IN  /\ Len(call.netlog) = 1
           /\ Len(ev) = 2
           /\ ev[1].eventName = "SNAP_VIEW" /\ ev[1].params = [id |-> id]
           /\ ev[2].eventName = "SNAP_EXPIRED" /\ ev[2].params = [id |-> id]
           /\ 2 * (ev[2].ts * TimeScale - T) <= TimeScale
           /\ 2 * (T - ev[2].ts * TimeScale) <= TimeScale
           /\ ev[2].ts - ev[1].ts = d
           /\ payload = [s \in {id} |-> [t |-> T, sv |-> d]]
C5_Witness ==
    /\ pc = "done" /\ call.op = "mark_viewed"
    /\ call.args = [snap_id |-> "s1", view_duration |-> 3]
    /\ call.now = 1000 * TimeScale
    /\ call.netlog[1].data.events.dumps[1].ts = 997
    /\ call.netlog[1].data.events.dumps[2].ts = 1000

CredentialOps == {"login", "auth_token_login", "get_updates", "get_friend_stories"}
\* the call received a response whose updates_response has an auth_token
GotToken(c) ==
    /\ c.op \in CredentialOps
    /\ CarriesToken(c.resp, c.netlog[1].raise_for_status)

\* C6 (amended): when login, auth_token_login, get_updates or
\* get_friend_stories receives a response whose updates_response has an
\* auth_token field, the session's auth_token is that value when the call ends.
C6_WriteBack ==
    (pc = "done" /\ GotToken(call))
    => auth_token = call.resp.json["updates_response"]["auth_token"]
C6_Witness ==
    /\ pc = "done" /\ call.op = "get_updates" /\ GotToken(call)
    /\ call.netlog[1].auth_token = "tokA" /\ auth_token = "tokB"
\* C6 (as claimed): moreover, after any sequence of such calls the session's
\* auth_token is the credential of the latest response that carried one.
C6_LatestCredential ==
    /\ C6_WriteBack
    /\ (~explicitUnset /\ lastCred \notin {Absent, None}) => auth_token = lastCred

\* C7: after logout returns, and after _unset_auth, username, auth_token and
\* qr_path are all null.
C7_ResetToEmpty ==
    (pc = "done" /\ call.op \in {"logout", "_unset_auth"} /\ call.err = "")
    => (username = None /\ auth_token = None /\ qr_path = None)

\* C8 (as claimed): once login or auth_token_login has ended, by return or by
\* error, username is null iff auth_token is null.
C8_SetTogether ==
    (pc = "done" /\ call.op \in {"login", "auth_token_login"})
    => (username = None <=> auth_token = None)
\* C8 (amended): when login or auth_token_login returns and the response's
\* updates_response has a username field and a non-null auth_token field, the
\* session holds the lower-cased username and that auth_token, both non-null.
C8_SetTogetherOnSuccess ==
    (pc = "done" /\ call.op \in {"login", "auth_token_login"} /\ call.err = ""
        /\ "username" \in DOMAIN call.resp.json["updates_response"]
        /\ "auth_token" \in DOMAIN call.resp.json["updates_response"]
        /\ call.resp.json["updates_response"]["auth_token"] # None)
    => /\ username = Lower(call.args.username) /\ username # None
       /\ auth_token = call.resp.json["updates_response"]["auth_token"]
C8_Witness ==
    /\ pc = "done" /\ call.op = "auth_token_login" /\ call.err = ""
    /\ call.netlog[1].auth_token = "tokC"
    /\ username = "bob" /\ auth_token = "tokB"

\* C9: get_blob, get_story_blob and get_chat_media each issue their request
\* with strict status checking off, so none ends with a transport failure.
C9_DownloadsNotStrict ==
    (pc = "done" /\ call.op \in DownloadOps)
    => /\ call.netlog[1].raise_for_status = FALSE
       /\ call.err # "HTTPError"

\* C10: send_to_story and retry_post_story each issue exactly one request,
\* stamped with the username, a timestamp and the media id as media_id and
\* client_id, and do not fail before it; the raw body is what they return.
C10_StoryPostsReachTransport ==
    (pc = "done" /\ call.op \in {"send_to_story", "retry_post_story"})
    => /\ Len(call.netlog) = 1
       /\ call.netlog[1].data.username = username
       /\ call.netlog[1].data.timestamp = Millis(call.now)
       /\ call.netlog[1].data.media_id = call.netlog[1].data.client_id
       /\ call.err = "" => call.ret = RetBytes(call.resp.content)

====
